---- MODULE Spec2Model ----
(***************************************************************************)
(* A model of triedir (src/main.py): the outline (Markdown) and tree-text   *)
(* parsers, build_tree, the two renderers, the notation detector, main and  *)
(* the filesystem materializer create_files_and_dirs.                       *)
(*                                                                          *)
(* A Python str is a sequence of one-character strings.  The box-drawing    *)
(* characters of the tree notation are written with these stand-ins:        *)
(*      "|" for U+2502,  "+" for U+251C,  "L" for U+2514,  "-" for U+2500   *)
(* and the line feed is written "NL".  A Node is a record; the Node objects *)
(* build_tree allocates live in the sequence nodes, in allocation order,  *)
(* and children holds indices into it (node 1 is root_node); None is the  *)
(* empty sequence.                                                          *)
(***************************************************************************)
EXTENDS Integers, Sequences, FiniteSets, TLC

VARIABLES
    pc,          \* position of the running operation
    entries,     \* list[tuple[str, int]] handed to build_tree
    nodes,       \* the Node objects allocated by build_tree
    stack,       \* build_tree's local stack (indices into nodes)
    pos,         \* build_tree's loop position in entries
    indent,      \* len(indent_str) used by generate_tree_text / parse_tree_text
    text,        \* the rendered text
    entries2,    \* the records parsed back from text
    nodes2,      \* the tree rebuilt from entries2
    input_file,  \* args.input_file
    found,       \* whether open(args.input_file) succeeds
    input_text,  \* the text read from the input file
    input_type,  \* detect_input_type's return value
    tree,        \* main's local tree
    calls,       \* the functions main has called, in order
    msg,         \* what main printed last
    err,         \* the exception that ended the run, or "none"
    root_dir,    \* args.root_dir, as a path
    fs,          \* the filesystem: path -> "dir" | "data" | "empty"
    prior,       \* the filesystem before the first materialization
    todo,        \* pending create_files_and_dirs calls, next call first
    ops,         \* the filesystem calls issued by the current run
    run,         \* which materialization run this is (1 or 2)
    fsAfter1     \* the filesystem as the first run left it

vars == <<pc, entries, nodes, stack, pos, indent, text, entries2, nodes2,
          input_file, found, input_type, input_text, tree, calls, msg, err,
          root_dir, fs, prior, todo, ops, run, fsAfter1>>

buildVars == <<entries, nodes, stack, pos>>
textVars  == <<indent, text, entries2, nodes2>>
mainVars  == <<input_file, found, input_text, input_type, tree, calls, msg>>
fsVars    == <<err, root_dir, fs, prior, todo, ops, run, fsAfter1>>

(***************************************************************************)
(* Bounds of the model.                                                     *)
(***************************************************************************)
MaxRecs == 4
MaxLevel == 2
MaxTextRecs == 3
MaxIndent == 4
MaxFsRecs == 3
MaxPathLen == 3

(***************************************************************************)
(* Python str helpers.                                                      *)
(***************************************************************************)
None == <<>>
NL == "NL"

IsSpace(c) == c \in {" ", "TAB"}

EndsWith(s, c) == Len(s) > 0 /\ s[Len(s)] = c

\* s[:-1]
DropLast(s) == IF Len(s) = 0 THEN <<>> ELSE SubSeq(s, 1, Len(s) - 1)

\* s[k:] for a 0-based k
From(s, k) == SubSeq(s, k + 1, Len(s))

RECURSIVE RStrip(_)
RStrip(s) ==
    IF Len(s) > 0 /\ IsSpace(s[Len(s)]) THEN RStrip(DropLast(s)) ELSE s

RECURSIVE LStrip(_)
LStrip(s) ==
    IF Len(s) > 0 /\ IsSpace(s[1]) THEN LStrip(Tail(s)) ELSE s

Strip(s) == LStrip(RStrip(s))

RECURSIVE Repeat(_, _)
Repeat(s, n) == IF n <= 0 THEN <<>> ELSE s \o Repeat(s, n - 1)

\* str.splitlines(): the lines without their terminators, no last empty line
RECURSIVE SplitLinesFrom(_, _)
SplitLinesFrom(s, cur) ==
    IF Len(s) = 0 THEN (IF Len(cur) = 0 THEN <<>> ELSE <<cur>>)
    ELSE IF Head(s) = NL THEN <<cur>> \o SplitLinesFrom(Tail(s), <<>>)
    ELSE SplitLinesFrom(Tail(s), Append(cur, Head(s)))

SplitLines(s) == SplitLinesFrom(s, <<>>)

(***************************************************************************)
(* class Node and build_tree.                                               *)
(***************************************************************************)
Node(name, is_dir, level) ==
    [name |-> name, is_dir |-> is_dir, children |-> <<>>, level |-> level]

\* Node.add_child on the node at index p
AddChild(ns, p, c) ==
    [ns EXCEPT ![p].children = Append(@, c)]

\* the mutant pops only strictly deeper entries
PopStack_strict(ns, st, level) ==
    LET RECURSIVE Pop(_)
        Pop(s) == IF Len(s) > 0 /\ level < ns[s[Len(s)]].level
                  THEN Pop(DropLast(s)) ELSE s
    IN Pop(st)

\* while stack and level <= stack[-1].level: stack.pop()
PopStack(ns, st, level) ==
    LET RECURSIVE Pop(_)
        Pop(s) == IF Len(s) > 0 /\ level <= ns[s[Len(s)]].level
                  THEN Pop(DropLast(s)) ELSE s
    IN Pop(st)

\* build_tree before its loop
BuildStart(es) ==
    [nodes |-> <<Node(es[1].name, TRUE, es[1].level)>>, stack |-> <<1>>]

\* one iteration of build_tree's loop
BuildIter(b, rec) ==
    LET is_dir == EndsWith(rec.name, "/")
        node   == Node(rec.name, is_dir, rec.level)
        k      == Len(b.nodes) + 1
        st     == PopStack(b.nodes, b.stack, rec.level)
        ns     == IF Len(st) > 0 THEN AddChild(b.nodes, st[Len(st)], k)
                  ELSE b.nodes
    IN [nodes |-> Append(ns, node), stack |-> Append(st, k)]

RECURSIVE BuildLoop(_, _, _)
BuildLoop(b, es, k) ==
    IF k > Len(es) THEN b ELSE BuildLoop(BuildIter(b, es[k]), es, k + 1)

\* build_tree: the allocated nodes (root_node first); None is the empty sequence
build_tree(es) ==
    IF Len(es) = 0 THEN None ELSE BuildLoop(BuildStart(es), es, 2).nodes

(***************************************************************************)
(* Walks over a tree held in a node sequence.                               *)
(***************************************************************************)
\* the nodes reachable from node k, in pre-order, with their nesting level
RECURSIVE PreOrder(_, _, _)
PreOrder(ns, k, d) ==
    LET RECURSIVE Kids(_)
        Kids(cs) == IF Len(cs) = 0 THEN <<>>
                    ELSE PreOrder(ns, Head(cs), d + 1) \o Kids(Tail(cs))
    IN <<[idx |-> k, depth |-> d]>> \o Kids(ns[k].children)

\* shape, names and directory flags of the tree under root_node
TreeView(ns) ==
    LET po == PreOrder(ns, 1, 0)
    IN [j \in 1..Len(po) |->
          [name |-> ns[po[j].idx].name, is_dir |-> ns[po[j].idx].is_dir,
           depth |-> po[j].depth]]

(***************************************************************************)
(* generate_tree_text and parse_tree_text.                                  *)
(***************************************************************************)
branch_str == <<"+", "-", "-", " ">>
last_branch_str == <<"L", "-", "-", " ">>

\* indent_str: w space characters
indent_str(w) == Repeat(<<" ">>, w)

\* the rendered name of a node: node.name[:-1] + ("/" if node.is_dir else "")
RenderedName(n) == DropLast(n.name) \o (IF n.is_dir THEN <<"/">> ELSE <<>>)

RECURSIVE generate_tree_text_recursive(_, _, _, _, _)
generate_tree_text_recursive(ns, w, k, prefix, is_last) ==
    LET node == ns[k]
        line == prefix \o (IF is_last THEN last_branch_str ELSE branch_str)
                       \o RenderedName(node) \o <<NL>>
        next_prefix == prefix \o (IF is_last THEN indent_str(w)
                                  ELSE <<"|">> \o indent_str(w))
        RECURSIVE Kids(_)
        Kids(j) == IF j > Len(node.children) THEN <<>>
                   ELSE generate_tree_text_recursive(
                            ns, w, node.children[j], next_prefix,
                            j = Len(node.children)) \o Kids(j + 1)
    IN line \o Kids(1)

generate_tree_text(ns, w) ==
    IF ns = None THEN <<>>
    ELSE generate_tree_text_recursive(ns, w, 1, <<>>, TRUE)

\* the first loop over a line: [level, name_start, current_indent]
RECURSIVE ScanLine(_, _, _, _)
ScanLine(line, w, j, st) ==
    IF j > Len(line) THEN st
    ELSE LET char == line[j]
             ns1 == IF char \in {" ", "|", "+", "L", "-"} THEN j
                    ELSE st.name_start
             ci  == IF char = " " THEN st.current_indent + 1
                    ELSE st.current_indent
             hit == char = " " /\ ci = w
         IN ScanLine(line, w, j + 1,
                [level |-> IF hit THEN st.level + 1 ELSE st.level,
                 name_start |-> ns1,
                 current_indent |-> IF hit THEN 0 ELSE ci])

\* the record parse_tree_text appends for one non-blank line
TreeLineRecord(line, w) ==
    LET st == ScanLine(line, w, 1,
                       [level |-> 0, name_start |-> 0, current_indent |-> 0])
        glyph == \E j \in 1..Len(line) : line[j] \in {"|", "+", "L"}
    IN [name |-> Strip(From(line, st.name_start)),
        level |-> IF glyph THEN st.level + 1 ELSE st.level]

\* line = line.rstrip(); if not line: continue
RECURSIVE NonBlankLines(_)
NonBlankLines(lines) ==
    IF Len(lines) = 0 THEN <<>>
    ELSE LET line == RStrip(Head(lines))
         IN (IF Len(line) = 0 THEN <<>> ELSE <<line>>)
            \o NonBlankLines(Tail(lines))

parse_tree_text(t, w) ==
    LET lines == NonBlankLines(SplitLines(t))
    IN [j \in 1..Len(lines) |-> TreeLineRecord(lines[j], w)]

(***************************************************************************)
(* parse_markdown and generate_markdown.                                    *)
(***************************************************************************)
RECURSIVE LeadingSpaces(_)
LeadingSpaces(line) ==
    IF Len(line) > 0 /\ Head(line) = " " THEN 1 + LeadingSpaces(Tail(line))
    ELSE 0

\* the record parse_markdown appends for one non-blank line
MarkdownLineRecord(line) ==
    LET level == LeadingSpaces(line)
    IN [name |-> Strip(From(line, level)), level |-> level]

parse_markdown(t) ==
    LET lines == NonBlankLines(SplitLines(t))
    IN [j \in 1..Len(lines) |-> MarkdownLineRecord(lines[j])]

MarkdownIndent == 4

RECURSIVE generate_markdown_recursive(_, _, _)
generate_markdown_recursive(ns, k, level) ==
    LET node == ns[k]
        result == IF level = -1 THEN <<>>
                  ELSE Repeat(indent_str(MarkdownIndent), level)
                       \o node.name \o <<NL>>
        RECURSIVE Kids(_)
        Kids(cs) == IF Len(cs) = 0 THEN <<>>
                    ELSE generate_markdown_recursive(
                             ns, Head(cs), ns[Head(cs)].level) \o Kids(Tail(cs))
    IN result \o Kids(node.children)

generate_markdown(ns) ==
    IF ns = None THEN <<>> ELSE generate_markdown_recursive(ns, 1, 0)

(***************************************************************************)
(* The filesystem calls of create_files_and_dirs.  A path is the sequence   *)
(* of its components below the working directory, which exists; fs maps     *)
(* each existing path to "dir", to "data" (a file with content) or to       *)
(* "empty" (a file of length 0).                                            *)
(***************************************************************************)
NoFiles == [p \in {} |-> "dir"]

Parent(path) == DropLast(path)

Prefixes(path) == { SubSeq(path, 1, j) : j \in 1..Len(path) }

IsDir(f, path) == path = <<>> \/ (path \in DOMAIN f /\ f[path] = "dir")

IsFile(f, path) == path \in DOMAIN f /\ f[path] \in {"data", "empty"}

\* os.path.join(current_path, node.name): a trailing "/" of the name and an
\* empty name add no component
PathJoin(cur, name) ==
    LET comp == IF EndsWith(name, "/") THEN DropLast(name) ELSE name
    IN IF Len(comp) = 0 THEN cur ELSE Append(cur, comp)

\* the mutant never finds the path
PathExists_never(f, path) == FALSE

\* os.path.exists(path)
PathExists(f, path) == path = <<>> \/ path \in DOMAIN f

\* the mutant creates nothing
MakeDirs_noop(f, path) == [fs |-> f, err |-> "none"]

\* os.makedirs(path, exist_ok=True)
MakeDirs(f, path) ==
    IF IsFile(f, path) THEN [fs |-> f, err |-> "FileExistsError"]
    ELSE IF \E q \in Prefixes(path) : IsFile(f, q)
         THEN [fs |-> f, err |-> "NotADirectoryError"]
    ELSE [fs |-> [q \in DOMAIN f \cup Prefixes(path) |->
                    IF q \in DOMAIN f THEN f[q] ELSE "dir"],
          err |-> "none"]

\* open(path, 'w').close()
OpenW(f, path) ==
    IF IsDir(f, path) THEN [fs |-> f, err |-> "IsADirectoryError"]
    ELSE IF IsFile(f, Parent(path))
         THEN [fs |-> f, err |-> "NotADirectoryError"]
    ELSE IF ~IsDir(f, Parent(path))
         THEN [fs |-> f, err |-> "FileNotFoundError"]
    ELSE [fs |-> [q \in DOMAIN f \cup {path} |->
                    IF q = path THEN "empty" ELSE f[q]],
          err |-> "none"]

KindOf(f, path) ==
    IF path = <<>> THEN "dir"
    ELSE IF path \in DOMAIN f THEN f[path] ELSE "absent"

\* the recursive calls of a directory node, in the order of node.children
ChildCalls(ns, k, path) ==
    [j \in 1..Len(ns[k].children) |-> [node |-> ns[k].children[j], cur |-> path]]

(***************************************************************************)
(* detect_input_type and the paths main takes.                              *)
(***************************************************************************)
Unset == [kind |-> "unset", nodes |-> <<>>]
EmptyStr == [kind |-> "str", nodes |-> <<>>]
NodeTree(ns) == [kind |-> "Node", nodes |-> ns]

\* str.lower() of one character
LowerChar(c) ==
    CASE c = "M" -> "m" [] c = "D" -> "d" [] c = "T" -> "t" [] c = "X" -> "x"
      [] c = "R" -> "r" [] c = "E" -> "e" [] OTHER -> c

Lower(s) == [j \in 1..Len(s) |-> LowerChar(s[j])]

\* str.rfind(c): the 0-based index of the last c, or -1
RFind(s, c) ==
    LET S == { j \in 1..Len(s) : s[j] = c }
    IN IF S = {} THEN -1 ELSE (CHOOSE j \in S : \A h \in S : h <= j) - 1

\* os.path.splitext(p)[1]: from the last dot of the last component, unless
\* only dots come before it in that component
SplitExt(p) ==
    LET sepIndex == RFind(p, "/")
        dotIndex == RFind(p, ".")
    IN IF /\ dotIndex > sepIndex
          /\ \E j \in (sepIndex + 1)..(dotIndex - 1) : p[j + 1] # "."
       THEN From(p, dotIndex) ELSE <<>>

ExtMd == <<".", "m", "d">>
ExtTxt == <<".", "t", "x", "t">>
ExtTree == <<".", "t", "r", "e", "e">>

\* the mutant compares the extension as given
detect_input_type_cased(input, file_extension) ==
    IF Len(file_extension) > 0 /\ file_extension = ExtMd THEN "markdown"
    ELSE IF Len(file_extension) > 0 /\ file_extension \in {ExtTxt, ExtTree}
         THEN "tree"
    ELSE "None"

detect_input_type(input, file_extension) ==
    IF Len(file_extension) > 0 /\ Lower(file_extension) = ExtMd THEN "markdown"
    ELSE IF Len(file_extension) > 0
            /\ Lower(file_extension) \in {ExtTxt, ExtTree}
         THEN "tree"
    ELSE "None"

DefaultIndent == 4

\* construct_markdown_structure
construct_markdown_structure(markdown_text) ==
    LET es == parse_markdown(markdown_text)
    IN IF Len(es) = 0 THEN EmptyStr ELSE NodeTree(build_tree(es))

\* construct_tree_structre
construct_tree_structre(tree_text) ==
    LET es == parse_tree_text(tree_text, DefaultIndent)
    IN IF Len(es) = 0 THEN EmptyStr ELSE NodeTree(build_tree(es))

(***************************************************************************)
(* build_tree, one loop iteration per step.                                 *)
(***************************************************************************)
BuildNames == { <<"a", "/">>, <<"b">> }

Records(names) == [name : names, level : 0..MaxLevel]

EntriesUpTo(names, n) == UNION { [1..m -> Records(names)] : m \in 0..n }

Idle ==
    /\ indent = 0 /\ text = <<>> /\ entries2 = <<>> /\ nodes2 = <<>>
    /\ input_file = <<>> /\ found = TRUE /\ input_text = <<>>
    /\ input_type = "None" /\ tree = Unset /\ calls = <<>> /\ msg = ""
    /\ err = "none" /\ root_dir = <<>> /\ fs = NoFiles /\ prior = NoFiles
    /\ todo = <<>> /\ ops = <<>> /\ run = 0 /\ fsAfter1 = NoFiles

InitBuild ==
    /\ pc = "build"
    /\ entries \in EntriesUpTo(BuildNames, MaxRecs)
    /\ nodes = <<>> /\ stack = <<>> /\ pos = 0
    /\ Idle

\* if not entries: return None
BuildEmpty ==
    /\ pc = "build" /\ Len(entries) = 0
    /\ nodes' = None /\ pc' = "built"
    /\ UNCHANGED <<entries, stack, pos, textVars, mainVars, fsVars>>

\* root_node = Node(entries[0][0], True, entries[0][1]); stack = [root_node]
BuildRoot ==
    /\ pc = "build" /\ Len(entries) > 0
    /\ nodes' = BuildStart(entries).nodes
    /\ stack' = BuildStart(entries).stack
    /\ pos' = 1 /\ pc' = "loop"
    /\ UNCHANGED <<entries, textVars, mainVars, fsVars>>

\* for name, level in entries[1:]: ...
BuildNext ==
    /\ pc = "loop" /\ pos < Len(entries)
    /\ LET b == BuildIter([nodes |-> nodes, stack |-> stack], entries[pos + 1])
       IN nodes' = b.nodes /\ stack' = b.stack
    /\ pos' = pos + 1
    /\ UNCHANGED <<pc, entries, textVars, mainVars, fsVars>>

\* return root_node
BuildReturn ==
    /\ pc = "loop" /\ pos = Len(entries)
    /\ pc' = "built"
    /\ UNCHANGED <<buildVars, textVars, mainVars, fsVars>>

NextBuild == BuildEmpty \/ BuildRoot \/ BuildNext \/ BuildReturn

SpecBuild == InitBuild /\ [][NextBuild]_vars

Range(s) == { s[j] : j \in 1..Len(s) }

Names(es) == [j \in 1..Len(es) |-> es[j].name]

\* the nearest earlier record of strictly smaller depth, 0 when there is none
NearestShallower(es, k) ==
    LET S == { j \in 1..(k - 1) : es[j].level < es[k].level }
    IN IF S = {} THEN 0 ELSE CHOOSE j \in S : \A h \in S : h <= j

\* C3: every record after the first that has an earlier record of strictly
\* smaller depth is a child of the nearest such record, appended after that
\* record's earlier children (the record just processed is its last child).
C3_DepthStack ==
    pc \in {"loop", "built"} /\ nodes # None =>
        \A k \in 2..Len(nodes) :
            LET p == NearestShallower(entries, k)
            IN p # 0 =>
                 /\ nodes[k].name = entries[k].name
                 /\ \E j \in 1..Len(nodes[p].children) :
                        /\ nodes[p].children[j] = k
                        /\ \A h \in 1..(j - 1) : nodes[p].children[h] < k
                 /\ k = Len(nodes) =>
                        nodes[p].children[Len(nodes[p].children)] = k
                 /\ \A q \in 1..Len(nodes) :
                        q # p => k \notin Range(nodes[q].children)

\* root -> [a, c], a -> [b]: the record c pops b and a's subtree is closed
C3_Witness ==
    /\ pc = "built" /\ Len(entries) = 4
    /\ [j \in 1..4 |-> entries[j].level] = <<0, 1, 2, 1>>
    /\ nodes[1].children = <<2, 4>>
    /\ nodes[2].children = <<3>>

\* C4: in the returned tree a non-root node is a directory exactly when its
\* name ends with "/", the root is a directory, and no file has children.
C4_DirFlags ==
    pc = "built" /\ nodes # None =>
        /\ nodes[1].is_dir
        /\ \A e \in Range(PreOrder(nodes, 1, 0)) :
              /\ e.idx # 1 =>
                    (nodes[e.idx].is_dir <=> EndsWith(nodes[e.idx].name, "/"))
              /\ ~nodes[e.idx].is_dir => nodes[e.idx].children = <<>>

\* C10: the pre-order walk from the returned root lists the names of the
\* input records, each once, in input order.
C10_NoRecordLost ==
    pc = "built" /\ nodes # None =>
        Names(TreeView(nodes)) = Names(entries)

(***************************************************************************)
(* Rendering a built tree and reading it back.                              *)
(***************************************************************************)
TextNames == { <<"a", "/">>, <<"b", "/">>, <<"a", "b">>, <<"c">>,
               <<"a", " ", "b", "/">> }

InitText ==
    /\ pc = "build"
    /\ entries \in EntriesUpTo(TextNames, MaxTextRecs)
    /\ nodes = <<>> /\ stack = <<>> /\ pos = 0
    /\ Idle

GenerateTreeText ==
    /\ pc = "built"
    /\ \E w \in 1..MaxIndent :
          /\ indent' = w
          /\ text' = generate_tree_text(nodes, w)
    /\ pc' = "tree_text"
    /\ UNCHANGED <<buildVars, entries2, nodes2, mainVars, fsVars>>

ParseTreeText ==
    /\ pc = "tree_text"
    /\ entries2' = parse_tree_text(text, indent)
    /\ pc' = "tree_parsed"
    /\ UNCHANGED <<buildVars, indent, text, nodes2, mainVars, fsVars>>

GenerateMarkdown ==
    /\ pc = "built"
    /\ text' = generate_markdown(nodes)
    /\ pc' = "md_text"
    /\ UNCHANGED <<buildVars, indent, entries2, nodes2, mainVars, fsVars>>

ParseMarkdown ==
    /\ pc = "md_text"
    /\ entries2' = parse_markdown(text)
    /\ pc' = "md_parsed"
    /\ UNCHANGED <<buildVars, indent, text, nodes2, mainVars, fsVars>>

\* build_tree on the records read back
Rebuild ==
    /\ pc \in {"tree_parsed", "md_parsed"}
    /\ nodes2' = build_tree(entries2)
    /\ pc' = IF pc = "tree_parsed" THEN "tree_done" ELSE "md_done"
    /\ UNCHANGED <<buildVars, indent, text, entries2, mainVars, fsVars>>

NextText ==
    \/ NextBuild
    \/ GenerateTreeText \/ ParseTreeText
    \/ GenerateMarkdown \/ ParseMarkdown
    \/ Rebuild

SpecText == InitText /\ [][NextText]_vars

\* sibling names are unique at every level of the tree under root_node
UniqueSiblings(ns) ==
    \A e \in Range(PreOrder(ns, 1, 0)) :
        LET cs == ns[e.idx].children
        IN \A x, y \in 1..Len(cs) : x # y => ns[cs[x]].name # ns[cs[y]].name

SameTree(ns1, ns2) ==
    ns2 # None /\ TreeView(ns1) = TreeView(ns2)

\* C1: a tree with unique sibling names, rendered by generate_tree_text, parsed
\* by parse_tree_text and rebuilt by build_tree, comes back equal in shape,
\* names and directory flags.
C1_DiagramRoundTrip ==
    pc = "tree_done" /\ nodes # None /\ UniqueSiblings(nodes) =>
        SameTree(nodes, nodes2)

\* the stored depths of the tree under root_node, in pre-order
Levels(ns) ==
    LET po == PreOrder(ns, 1, 0)
    IN [j \in 1..Len(po) |-> ns[po[j].idx].level]

\* C2: a tree with unique sibling names, rendered by generate_markdown, parsed
\* by parse_markdown and rebuilt by build_tree, comes back equal in shape,
\* names and directory flags, every node with the stored depth it had.
C2_OutlineRoundTrip ==
    pc = "md_done" /\ nodes # None /\ UniqueSiblings(nodes) =>
        /\ SameTree(nodes, nodes2)
        /\ Levels(nodes2) = Levels(nodes)

\* C8: for every indentation width, the depth parse_tree_text computes for
\* each rendered line is the nesting level of the line's node plus one offset
\* common to all the lines.
C8_DepthRecovery ==
    pc = "tree_parsed" /\ nodes # None =>
        LET po == PreOrder(nodes, 1, 0)
        IN /\ Len(entries2) = Len(po)
           /\ \E off \in 0..(MaxIndent + 2) :
                 \A j \in 1..Len(po) : entries2[j].level = po[j].depth + off

(***************************************************************************)
(* create_files_and_dirs, one call per step; the calls still to be made are *)
(* held in todo, the next one first.                                        *)
(***************************************************************************)
Components == { <<"a">>, <<"b">> }

\* the environment puts one file or directory in place before the run
EnvCreate ==
    /\ pc \in {"setup", "start"}
    /\ \E n \in 1..MaxPathLen : \E path \in [1..n -> Components] :
       \E kind \in {"dir", "data"} :
          /\ fs' = [q \in Prefixes(path) |-> IF q = path THEN kind ELSE "dir"]
    /\ prior' = fs'
    /\ pc' = IF pc = "start" THEN "main" ELSE "ready"
    /\ UNCHANGED <<buildVars, textVars, mainVars,
                   err, root_dir, todo, ops, run, fsAfter1>>

\* the call create_files_and_dirs(tree, root_dir)
CreateStart ==
    /\ pc \in {"setup", "ready"} /\ run = 0
    /\ run' = 1 /\ ops' = <<>>
    /\ IF tree.kind = "Node"
       THEN /\ nodes' = tree.nodes
            /\ todo' = <<[node |-> 1, cur |-> root_dir]>>
            /\ err' = "none" /\ pc' = "mat"
       ELSE \* node.name on a str
            /\ err' = "AttributeError" /\ pc' = "crashed"
            /\ UNCHANGED <<nodes, todo>>
    /\ UNCHANGED <<entries, stack, pos, textVars, mainVars,
                   root_dir, fs, prior, fsAfter1>>

\* one call of create_files_and_dirs(node, current_path), up to its
\* recursive calls
CreateStep ==
    /\ pc = "mat" /\ Len(todo) > 0
    /\ LET node == nodes[Head(todo).node]
           path == PathJoin(Head(todo).cur, node.name)
           log(call, r) == [call |-> call, node |-> Head(todo).node,
                            path |-> path, before |-> KindOf(fs, path),
                            ok |-> r.err = "none"]
       IN IF node.is_dir
          THEN LET r == MakeDirs(fs, path)
               IN /\ fs' = r.fs /\ err' = r.err
                  /\ ops' = Append(ops, log("makedirs", r))
                  /\ IF r.err = "none"
                     THEN /\ todo' = ChildCalls(nodes, Head(todo).node, path)
                                     \o Tail(todo)
                          /\ pc' = "mat"
                     ELSE todo' = <<>> /\ pc' = "crashed"
          ELSE IF ~PathExists(fs, path)
          THEN LET r == OpenW(fs, path)
               IN /\ fs' = r.fs /\ err' = r.err
                  /\ ops' = Append(ops, log("open", r))
                  /\ IF r.err = "none"
                     THEN todo' = Tail(todo) /\ pc' = "mat"
                     ELSE todo' = <<>> /\ pc' = "crashed"
          ELSE /\ ops' = Append(ops, log("exists", [err |-> "none"]))
               /\ todo' = Tail(todo)
               /\ UNCHANGED <<fs, err, pc>>
    /\ UNCHANGED <<buildVars, textVars, mainVars, root_dir, prior, run, fsAfter1>>

\* the outermost call returns
CreateReturn ==
    /\ pc = "mat" /\ Len(todo) = 0
    /\ pc' = "mat_done"
    /\ UNCHANGED <<buildVars, textVars, mainVars, fsVars>>

\* create_files_and_dirs is run a second time on the same tree and root
Rerun ==
    /\ pc \in {"mat_done", "crashed"} /\ run = 1
    /\ fsAfter1' = fs /\ run' = 2
    /\ todo' = <<[node |-> 1, cur |-> root_dir]>>
    /\ ops' = <<>> /\ err' = "none" /\ pc' = "mat"
    /\ UNCHANGED <<buildVars, textVars, mainVars, root_dir, fs, prior>>

FsNames == { <<"a", "/">>, <<"a">>, <<"b">> }

\* record sequences in which every record nests under the one before it or
\* under one of its ancestors: all the records are in the tree
Nested(es) ==
    /\ Len(es) > 0 /\ es[1].level = 0
    /\ \A j \in 2..Len(es) : es[j].level \in 1..(es[j - 1].level + 1)

InitFs ==
    /\ pc = "setup"
    /\ entries \in { es \in EntriesUpTo(FsNames, MaxFsRecs) : Nested(es) }
    /\ nodes = build_tree(entries) /\ stack = <<>> /\ pos = Len(entries)
    /\ tree = NodeTree(nodes)
    /\ root_dir \in { <<>>, <<<<"a">>>> }
    /\ indent = 0 /\ text = <<>> /\ entries2 = <<>> /\ nodes2 = <<>>
    /\ input_file = <<>> /\ found = TRUE /\ input_text = <<>>
    /\ input_type = "None" /\ calls = <<>> /\ msg = ""
    /\ err = "none" /\ fs = NoFiles /\ prior = NoFiles
    /\ todo = <<>> /\ ops = <<>> /\ run = 0 /\ fsAfter1 = NoFiles

NextFs == EnvCreate \/ CreateStart \/ CreateStep \/ CreateReturn \/ Rerun

SpecFs == InitFs /\ [][NextFs]_vars

\* C5: create_files_and_dirs leaves every file and directory that was there
\* before as it was (nothing deleted, truncated or replaced), os.makedirs on a
\* directory that exists raises nothing, and a second run on the same
\* destination leaves the filesystem as the first run left it.
C5_Materialize ==
    /\ run >= 1 => \A p \in DOMAIN prior : p \in DOMAIN fs /\ fs[p] = prior[p]
    /\ \A j \in 1..Len(ops) :
          ops[j].call = "makedirs" /\ ops[j].before = "dir" => ops[j].ok
    /\ run = 2 => fs = fsAfter1

\* a second run has ended where the first found a file with content at a file
\* node's path and a directory at a directory node's path
C5_Witness ==
    /\ run = 2 /\ pc = "mat_done"
    /\ \E j \in 1..Len(ops) :
          /\ ops[j].call = "exists"
          /\ ops[j].path \in DOMAIN prior /\ prior[ops[j].path] = "data"
    /\ \E j \in 1..Len(ops) :
          /\ ops[j].call = "makedirs"
          /\ ops[j].path \in DOMAIN prior /\ prior[ops[j].path] = "dir"

\* s is t with some elements left out
RECURSIVE IsSubSeq(_, _)
IsSubSeq(s, t) ==
    IF Len(s) = 0 THEN TRUE
    ELSE IF Len(t) = 0 THEN FALSE
    ELSE IF Head(s) = Head(t) THEN IsSubSeq(Tail(s), Tail(t))
    ELSE IsSubSeq(s, Tail(t))

\* the nodes of the os.makedirs and open calls issued so far, in order
Created ==
    LET RECURSIVE Pick(_)
        Pick(j) == IF j > Len(ops) THEN <<>>
                   ELSE (IF ops[j].call \in {"makedirs", "open"}
                         THEN <<ops[j].node>> ELSE <<>>) \o Pick(j + 1)
    IN Pick(1)

InputFiles ==
    { <<"t", ".", "m", "d">>, <<"t", ".", "M", "D">>,
      <<"t", ".", "t", "x", "t">>, <<"t", ".", "t", "r", "e", "e">>,
      <<"t", ".", "T", "r", "e", "e">>, <<"t", ".", "j", "s", "o", "n">>,
      <<"t">>, <<".", "m", "d">>, <<"t", ".", "d", "/", "m", "d">> }

InputTexts ==
    { <<>>,
      <<" ", NL, NL>>,
      <<"a", "/", NL>>,
      <<"a", "/", NL, " ", "b", NL, " ", "a", "/", NL, " ", " ", "b", NL>>,
      <<"L", "-", "-", " ", "a", "/", NL,
        " ", " ", " ", " ", "+", "-", "-", " ", "b", NL,
        " ", " ", " ", " ", "L", "-", "-", " ", "a", "/", NL>> }

MsgNotFound == "Error: Input file not found."
MsgUndetermined == "Error: Could not automatically detect input type."
MsgCreated == "Directory structure created"

InitMain ==
    /\ pc = "start"
    /\ input_file \in InputFiles
    /\ found \in BOOLEAN
    /\ input_text \in InputTexts
    /\ entries = <<>> /\ nodes = <<>> /\ stack = <<>> /\ pos = 0
    /\ indent = 0 /\ text = <<>> /\ entries2 = <<>> /\ nodes2 = <<>>
    /\ input_type = "None" /\ tree = Unset /\ calls = <<>> /\ msg = ""
    /\ err = "none" /\ root_dir = <<>> /\ fs = NoFiles /\ prior = NoFiles
    /\ todo = <<>> /\ ops = <<>> /\ run = 0 /\ fsAfter1 = NoFiles

\* open(args.input_file) and f.read()
MainRead ==
    /\ pc \in {"start", "main"}
    /\ IF found THEN pc' = "detect" /\ msg' = msg
       ELSE pc' = "done" /\ msg' = MsgNotFound
    /\ UNCHANGED <<buildVars, textVars, input_file, found, input_text,
                   input_type, tree, calls, fsVars>>

\* input_type = detect_input_type(input_text, os.path.splitext(...)[1])
MainDetect ==
    /\ pc = "detect"
    /\ input_type' = detect_input_type(input_text, SplitExt(input_file))
    /\ pc' = "dispatch"
    /\ UNCHANGED <<buildVars, textVars, input_file, found, input_text,
                   tree, calls, msg, fsVars>>

\* tree = construct_markdown_structure(input_text)
MainMarkdown ==
    /\ pc = "dispatch" /\ input_type = "markdown"
    /\ entries' = parse_markdown(input_text)
    /\ tree' = construct_markdown_structure(input_text)
    /\ calls' = calls \o <<"parse_markdown">>
                      \o (IF Len(entries') > 0 THEN <<"build_tree">> ELSE <<>>)
    /\ pc' = "ready"
    /\ UNCHANGED <<nodes, stack, pos, textVars, input_file, found, input_text,
                   input_type, msg, fsVars>>

\* tree = construct_tree_structre(input_text)
MainTree ==
    /\ pc = "dispatch" /\ input_type = "tree"
    /\ entries' = parse_tree_text(input_text, DefaultIndent)
    /\ tree' = construct_tree_structre(input_text)
    /\ calls' = calls \o <<"parse_tree_text">>
                      \o (IF Len(entries') > 0 THEN <<"build_tree">> ELSE <<>>)
    /\ pc' = "ready"
    /\ UNCHANGED <<nodes, stack, pos, textVars, input_file, found, input_text,
                   input_type, msg, fsVars>>

\* else: print("Error: Could not automatically detect input type. ..."); return
MainUndetermined ==
    /\ pc = "dispatch" /\ input_type \notin {"markdown", "tree"}
    /\ msg' = MsgUndetermined /\ pc' = "done"
    /\ UNCHANGED <<buildVars, textVars, input_file, found, input_text,
                   input_type, tree, calls, fsVars>>

\* print(f"Directory structure created in ...")
MainPrint ==
    /\ pc = "mat_done"
    /\ msg' = MsgCreated /\ pc' = "done"
    /\ UNCHANGED <<buildVars, textVars, input_file, found, input_text,
                   input_type, tree, calls, fsVars>>

NextMain ==
    \/ MainRead \/ MainDetect \/ MainMarkdown \/ MainTree \/ MainUndetermined
    \/ EnvCreate \/ CreateStart \/ CreateStep \/ CreateReturn
    \/ MainPrint

SpecMain == InitMain /\ [][NextMain]_vars

Ended == pc \in {"done", "crashed"}

Parsers == {"parse_markdown", "parse_tree_text"}

\* C6: when the parsed record sequence is empty the tree builder fails with
\* EmptyInputError, no tree is built and the run changes nothing on disk.
C6_EmptyInput ==
    Ended /\ Range(calls) \cap Parsers # {} /\ Len(entries) = 0 =>
        /\ err = "EmptyInputError"
        /\ tree.kind # "Node"
        /\ fs = prior /\ Len(ops) = 0

\* the undetermined outcome: no parser called, nothing created, error printed
Undetermined ==
    /\ input_type = "None"
    /\ Len(calls) = 0 /\ Len(ops) = 0 /\ fs = prior /\ run = 0
    /\ msg = MsgUndetermined /\ pc = "done"

====
